---- MODULE Spec2Model ----
(***************************************************************************)
(* Model of the meteor impact predictor (meteor_api_model.py) and of the   *)
(* batch data collector (meteor_csv_api.py).                               *)
(*                                                                         *)
(* Python floats are carried as fixed-point integers; every quantity keeps *)
(* the name it has in the source and the comment next to it gives its unit.*)
(*   lengths      diameter_m in metres, crater_diameter_m in decimetres,   *)
(*                damage_radius_km and city_distance_km in 0.01 km,        *)
(*                distance_km in km                                        *)
(*   energy       energy_j in terajoules, energy_mt in 0.001 megatons      *)
(*   risk         proximity_risk and impact_risk in 0.001 points,          *)
(*                combined_risk_factor in 0.1 points (it is rounded to one *)
(*                decimal by the code)                                     *)
(*   angles       whole degrees                                            *)
(* Quantising by floor keeps every threshold comparison of the code exact  *)
(* as long as the threshold is a multiple of the unit, which holds for all *)
(* thresholds below.                                                       *)
(***************************************************************************)
EXTENDS Integers, Sequences, FiniteSets, TLC

\* ------------------------------------------------------------------------
\* Bounds of the model
\* ------------------------------------------------------------------------
\* number of interactive_predictor calls of one session
MaxCalls == 3
\* longest city table handed to find_nearest_city on its own
MaxCities == 2
\* most requests of one run of the batch collector that fail
MaxFailures == 3
\* longest span end_date - start_date of a call of fetch_neo on its own
MaxSpan == 17
\* longest list of collected objects handed to the scoring loop on its own
MaxObjects == 2

\* ------------------------------------------------------------------------
\* Fixed-point arithmetic
\* ------------------------------------------------------------------------
\* floor(a*b/c) without leaving 32 bits (exact for a, b >= 0, c > 0)
MulDiv(a, b, c) == (a \div c) * b + ((a % c) * b) \div c

Min(a, b) == IF a < b THEN a ELSE b

Max(a, b) == IF a > b THEN a ELSE b

\* Python round(): to the nearest multiple of unit, ties to the even one
RoundHalfEven(x, unit) ==
    LET q == x \div unit
        r == x % unit
    IN  IF 2 * r < unit THEN q
        ELSE IF 2 * r > unit THEN q + 1
        ELSE IF q % 2 = 0 THEN q ELSE q + 1

\* float('inf')
Infinity == 2000000000

\* 10^6 * sin(t/2)^2 for t = 0..180 degrees (entry t+1)
HavTable ==
 << 0, 76, 305, 685, 1218, 1903, 2739, 3727, 4866, 6156,
    7596, 9186, 10926, 12815, 14852, 17037, 19369, 21848, 24472, 27241,
    30154, 33210, 36408, 39748, 43227, 46846, 50603, 54497, 58526, 62690,
    66987, 71416, 75976, 80665, 85481, 90424, 95492, 100682, 105995, 111427,
    116978, 122645, 128428, 134323, 140330, 146447, 152671, 159001, 165435, 171970,
    178606, 185340, 192169, 199092, 206107, 213212, 220404, 227680, 235040, 242481,
    250000, 257595, 265264, 273005, 280814, 288691, 296632, 304634, 312697, 320816,
    328990, 337216, 345492, 353814, 362181, 370590, 379039, 387524, 396044, 404596,
    413176, 421783, 430413, 439065, 447736, 456422, 465122, 473832, 482550, 491274,
    500000, 508726, 517450, 526168, 534878, 543578, 552264, 560935, 569587, 578217,
    586824, 595404, 603956, 612476, 620961, 629410, 637819, 646186, 654508, 662784,
    671010, 679184, 687303, 695366, 703368, 711309, 719186, 726995, 734736, 742405,
    750000, 757519, 764960, 772320, 779596, 786788, 793893, 800908, 807831, 814660,
    821394, 828030, 834565, 840999, 847329, 853553, 859670, 865677, 871572, 877355,
    883022, 888573, 894005, 899318, 904508, 909576, 914519, 919335, 924024, 928584,
    933013, 937310, 941474, 945503, 949397, 953154, 956773, 960252, 963592, 966790,
    969846, 972759, 975528, 978152, 980631, 982963, 985148, 987185, 989074, 990814,
    992404, 993844, 995134, 996273, 997261, 998097, 998782, 999315, 999695, 999924,
    1000000 >>

\* 10^6 * math.sin(math.radians(x)/2)**2 for -360 <= x <= 360
SinSqHalf(x) ==
    LET ax == IF x < 0 THEN 0 - x ELSE x
        t  == IF ax > 180 THEN 360 - ax ELSE ax
    IN  HavTable[t + 1]

\* 10^4 * math.cos(math.radians(x)), from cos x = 1 - 2 sin^2(x/2)
Cos(x) == (1000000 - 2 * SinSqHalf(x)) \div 100

\* 10^3 * math.sin(math.radians(x)) for 0 <= x <= 180, from sin x = cos(90 - x)
Sin(x) == (1000000 - 2 * SinSqHalf(90 - x)) \div 1000

\* 2 * math.asin(math.sqrt(a)) in hundredths of a degree, a in 10^-6:
\* the table read backwards, linear between two entries
ArcSinSqrt2(a) ==
    LET t == CHOOSE u \in 0..180 :
                 /\ HavTable[u + 1] <= a
                 /\ (u = 180 \/ HavTable[u + 2] > a)
    IN  IF t = 180 THEN 18000
        ELSE t * 100 + ((a - HavTable[t + 1]) * 100)
                          \div (HavTable[t + 2] - HavTable[t + 1])

\* c^3 > x, for x below 2^31 (1290^3 is the largest cube below 2^31)
CubeExceeds(c, x) == c > 1290 \/ c * c * c > x

\* the largest r with r^3 <= x, digit by digit
CbrtFloor(x) ==
    LET h == CHOOSE d \in 0..12 :
                 ~CubeExceeds(100 * d, x) /\ CubeExceeds(100 * (d + 1), x)
        t == CHOOSE d \in 0..9 :
                 /\ ~CubeExceeds(100 * h + 10 * d, x)
                 /\ CubeExceeds(100 * h + 10 * (d + 1), x)
        u == CHOOSE d \in 0..9 :
                 /\ ~CubeExceeds(100 * h + 10 * t + d, x)
                 /\ CubeExceeds(100 * h + 10 * t + d + 1, x)
    IN  100 * h + 10 * t + u

\* 100 * x ** (1/3), linear between two cubes
CbrtOf(r, x) == r * 100 + ((x - r * r * r) * 100) \div (3 * r * r + 3 * r + 1)

Cbrt(x) == CbrtOf(CbrtFloor(x), x)

\* 100 * velocity_m_s ** 0.44, tabulated on the velocities of the model (km/s)
Pow044(velocity_km_s) ==
    CASE velocity_km_s = 0   -> 0
      [] velocity_km_s = 20  -> 7806
      [] velocity_km_s = 100 -> 15848

\* 1000 * math.sin(angle_rad) ** 0.33, tabulated on the angles of the model
Pow033Sin(angle_deg) ==
    CASE angle_deg = 0   -> 0
      [] angle_deg = 45  -> 891
      [] angle_deg = 90  -> 1000
      [] angle_deg = 120 -> 953

\* ------------------------------------------------------------------------
\* meteor_api_model.py: constants and the city table
\* ------------------------------------------------------------------------
\* 10^4 * math.pi
PI == 31416
\* 1 megaton TNT = 4.184e15 J, in terajoules
TNT_EQUIVALENT_J == 4184
\* 1000 * EARTH_DENSITY ** 0.22, EARTH_DENSITY = 2700
EARTH_DENSITY_POW == 5687
\* 10 million km
MAX_DISTANCE_KM == 10000000
\* Earth radius in km
R == 6371
\* defaults of simulate_meteor_impact
DEFAULT_ANGLE_DEG == 45
DEFAULT_DENSITY_KG_M3 == 3000

\* An excerpt of MAJOR_CITIES in the order of the source, coordinates in
\* whole degrees.
MAJOR_CITIES ==
    << [city |-> "New York, USA",     lat |-> 41, lon |-> -74],
       [city |-> "Los Angeles, USA",  lat |-> 34, lon |-> -118],
       [city |-> "Chicago, USA",      lat |-> 42, lon |-> -88],
       [city |-> "Philadelphia, USA", lat |-> 40, lon |-> -75],
       [city |-> "Denver, USA",       lat |-> 40, lon |-> -105] >>

\* ------------------------------------------------------------------------
\* find_nearest_city
\* ------------------------------------------------------------------------
\* the haversine distance of one loop iteration, in metres
Haversine(lat, lon, city_lat, city_lon) ==
    LET a == SinSqHalf(city_lat - lat)
             + (((Cos(lat) * Cos(city_lat)) \div 100000)
                  * SinSqHalf(city_lon - lon)) \div 1000
        c == ArcSinSqrt2(a)
    IN  MulDiv(R * c, PI, 1800) \div 100

RECURSIVE NearestLoopLastWins(_, _, _, _, _, _)
\* mutation: <= in place of <, a later entry at the same distance wins
NearestLoopLastWins(table, i, lat, lon, min_distance, nearest) ==
    IF i > Len(table) THEN << nearest, min_distance >>
    ELSE LET distance == Haversine(lat, lon, table[i].lat, table[i].lon)
         IN  IF distance <= min_distance
             THEN NearestLoopLastWins(table, i + 1, lat, lon, distance,
                                      table[i].city)
             ELSE NearestLoopLastWins(table, i + 1, lat, lon, min_distance,
                                      nearest)

RECURSIVE NearestLoop(_, _, _, _, _, _)
\* the for loop over the table from entry i on
NearestLoop(table, i, lat, lon, min_distance, nearest) ==
    IF i > Len(table) THEN << nearest, min_distance >>
    ELSE LET distance == Haversine(lat, lon, table[i].lat, table[i].lon)
         IN  IF distance < min_distance
             THEN NearestLoop(table, i + 1, lat, lon, distance, table[i].city)
             ELSE NearestLoop(table, i + 1, lat, lon, min_distance, nearest)

\* round(min_distance, 2): metres to 0.01 km; round(inf, 2) is inf
Round2(min_distance) ==
    IF min_distance = Infinity THEN Infinity
    ELSE RoundHalfEven(min_distance, 10)

\* mutation: min_distance starts at 0 instead of float('inf')
find_nearest_city_from_zero(table, lat, lon) ==
    LET r == NearestLoop(table, 1, lat, lon, 0, "Unknown location")
    IN  [nearest |-> r[1], distance_km |-> Round2(r[2])]

find_nearest_city(table, lat, lon) ==
    LET r == NearestLoop(table, 1, lat, lon, Infinity, "Unknown location")
    IN  [nearest |-> r[1], distance_km |-> Round2(r[2])]

\* ------------------------------------------------------------------------
\* simulate_meteor_impact, statement by statement
\* ------------------------------------------------------------------------
\* mass_kg = (4/3) * pi * radius_m**3 * density, radius_m = diameter_m / 2
MassKg(diameter_m, density_kg_m3) ==
    MulDiv(MulDiv(diameter_m * diameter_m * diameter_m, density_kg_m3, 6),
           PI, 10000)

\* energy_j = 0.5 * mass_kg * velocity_m_s**2 * sin(angle_rad), in TJ
EnergyJ(mass_kg, velocity_km_s, angle_deg) ==
    MulDiv(MulDiv(mass_kg, velocity_km_s * velocity_km_s, 20000),
           Sin(angle_deg), 100000)

\* energy_mt = energy_j / TNT_EQUIVALENT_J, in 0.001 MT
EnergyMt(energy_j) == MulDiv(energy_j, 1000, TNT_EQUIVALENT_J)

\* crater_diameter_m, both statements, in decimetres
CraterDiameterM(mass_kg, velocity_km_s, angle_deg) ==
    LET c1 == MulDiv((Cbrt(mass_kg) * Pow044(velocity_km_s)) \div 1000,
                     1161, EARTH_DENSITY_POW)
    IN  (c1 * Pow033Sin(angle_deg)) \div 1000

\* damage_radius_km = (crater_diameter_m / 1000) * 20, in 0.01 km
DamageRadiusKm(crater_diameter_m) == (crater_diameter_m * 20) \div 100

\* mutation: the max(0, ...) is missing
ProximityRiskNoFloor(distance_km) ==
    Min(100000, (MAX_DISTANCE_KM - distance_km) \div 100)

\* proximity_risk = min(100, max(0, (MAX_DISTANCE_KM - distance_km) / 1e5))
ProximityRisk(distance_km) ==
    Min(100000, Max(0, (MAX_DISTANCE_KM - distance_km) \div 100))

\* the if/elif chain on energy_mt that sets impact_risk
ImpactRisk(energy_mt, damage_radius_km) ==
    IF energy_mt < 10 THEN 5000
    ELSE IF energy_mt < 1000 THEN Min(50000, 20000 + damage_radius_km * 10)
    ELSE IF energy_mt < 1000000 THEN Min(80000, 50000 + damage_radius_km * 5)
    ELSE Min(100000, 80000 + damage_radius_km)

\* mutation: the weights 0.4 and 0.6 are exchanged
CombinedRiskWeightsExchanged(proximity_risk, impact_risk) ==
    RoundHalfEven(Min(1000000, Max(0, proximity_risk * 6 + impact_risk * 4)),
                  1000)

\* combined_risk, both statements; the sum is in 10^-4 points
CombinedRisk(proximity_risk, impact_risk) ==
    RoundHalfEven(Min(1000000, Max(0, proximity_risk * 4 + impact_risk * 6)),
                  1000)

\* mutation: <= in the label chain, 1 MT falls in the lower tier
ImpactClassUpperInclusive(energy_mt) ==
    IF energy_mt < 10 THEN "Small fireball - harmless airburst"
    ELSE IF energy_mt <= 1000 THEN "Tunguska-scale regional event"
    ELSE IF energy_mt < 1000000 THEN "City to country-scale devastation"
    ELSE "Global catastrophic impact"

\* the second if/elif chain on energy_mt: impact_class
ImpactClass(energy_mt) ==
    IF energy_mt < 10 THEN "Small fireball - harmless airburst"
    ELSE IF energy_mt < 1000 THEN "Tunguska-scale regional event"
    ELSE IF energy_mt < 1000000 THEN "City to country-scale devastation"
    ELSE "Global catastrophic impact"

\* the second if/elif chain on energy_mt: casualty_estimate
CasualtyEstimate(energy_mt) ==
    IF energy_mt < 10 THEN "0-10 (minor injuries from debris)"
    ELSE IF energy_mt < 1000 THEN "100s-1,000s (within 50km radius)"
    ELSE IF energy_mt < 1000000 THEN "10,000s-100,000s (regional catastrophe)"
    ELSE "Millions to billions (mass extinction event)"

\* mutation: < in place of <=
CityAffectedStrict(city_distance_km, damage_radius_km) ==
    city_distance_km < damage_radius_km

\* city_affected = city_distance_km <= damage_radius_km
CityAffected(city_distance_km, damage_radius_km) ==
    city_distance_km <= damage_radius_km

\* ------------------------------------------------------------------------
\* get_mitigation_strategy: the tier tag of the text and the values the
\* template prints (radii in 0.1 km, as formatted with .1f)
\* ------------------------------------------------------------------------
\* mutation: <= 20 in the first comparison
get_mitigation_strategy_le(risk_factor, city_affected, nearest_city, damage_radius_km) ==
    IF risk_factor <= 200
    THEN [tier |-> "LOW", city |-> nearest_city, warning |-> FALSE,
          zone_km |-> 0, outer_km |-> 0]
    ELSE IF risk_factor < 500
    THEN [tier |-> "MODERATE", city |-> nearest_city, warning |-> city_affected,
          zone_km |-> RoundHalfEven(damage_radius_km, 10),
          outer_km |-> RoundHalfEven(damage_radius_km * 15, 100)]
    ELSE IF risk_factor < 800
    THEN [tier |-> "HIGH", city |-> nearest_city, warning |-> city_affected,
          zone_km |-> RoundHalfEven(damage_radius_km, 10),
          outer_km |-> RoundHalfEven(damage_radius_km * 2, 10)]
    ELSE [tier |-> "EXTREME", city |-> nearest_city, warning |-> FALSE,
          zone_km |-> 0, outer_km |-> 0]

get_mitigation_strategy(risk_factor, city_affected, nearest_city, damage_radius_km) ==
    IF risk_factor < 200
    THEN [tier |-> "LOW", city |-> nearest_city, warning |-> FALSE,
          zone_km |-> 0, outer_km |-> 0]
    ELSE IF risk_factor < 500
    THEN [tier |-> "MODERATE", city |-> nearest_city, warning |-> city_affected,
          zone_km |-> RoundHalfEven(damage_radius_km, 10),
          outer_km |-> RoundHalfEven(damage_radius_km * 15, 100)]
    ELSE IF risk_factor < 800
    THEN [tier |-> "HIGH", city |-> nearest_city, warning |-> city_affected,
          zone_km |-> RoundHalfEven(damage_radius_km, 10),
          outer_km |-> RoundHalfEven(damage_radius_km * 2, 10)]
    ELSE [tier |-> "EXTREME", city |-> nearest_city, warning |-> FALSE,
          zone_km |-> 0, outer_km |-> 0]

\* ------------------------------------------------------------------------
\* State
\* ------------------------------------------------------------------------
VARIABLES
    cities,       \* the MAJOR_CITIES table find_nearest_city reads
    pc,           \* position of the predictor: "idle" between calls,
                  \* "returned" once a direct call has returned
    caller,       \* who called simulate_meteor_impact
    args,         \* arguments of simulate_meteor_impact
    sim,          \* locals of simulate_meteor_impact
    steps,        \* the stages the running evaluation has completed, in order
    result,       \* the dict simulate_meteor_impact returned
    mitigation,   \* what get_mitigation_strategy returned
    console,      \* last message interactive_predictor printed
    clock,        \* number of interactive_predictor calls so far
    csv_exists,   \* os.path.isfile(csv_filename)
    csv,          \* rows of the CSV log
    accepted,     \* calls whose inputs passed the validation, in call order
    \* meteor_csv_api.py
    main_pc,      \* position of main()
    feeds,        \* what the NEO, Fireball and CAD services hold
    called,       \* the fetchers main has called, in call order
    start_date,   \* fetch_neo: its first parameter, a day number
    end_date,     \* fetch_neo: its second parameter, a day number
    current,      \* fetch_neo: start of the next window, in days from start_date
    requests,     \* fetch_neo: the windows requested so far
    failures,     \* number of requests that failed so far
    printed,      \* the "Error fetching ..." lines printed so far
    neos,         \* main: result of fetch_neo
    fireballs,    \* main: result of fetch_fireball
    cad_objects,  \* main: result of fetch_cad
    all_objects,  \* main: the combined, scored list
    csv_file      \* rows of CSV_FILE

predictor_vars == << cities, pc, caller, args, sim, steps, result, mitigation,
                     console, clock, csv_exists, csv, accepted >>

batch_vars == << main_pc, feeds, called, start_date, end_date, current, requests, failures, printed, neos,
                 fireballs, cad_objects, all_objects, csv_file >>

vars == << predictor_vars, batch_vars >>

\* ------------------------------------------------------------------------
\* Values typed at the prompts, and arguments of direct calls
\* ------------------------------------------------------------------------
DiameterInputs == {-5, 0, 1, 10, 100}
VelocityInputs == {0, 20, 100}
DistanceInputs == {-1000, 0, 5000000, 10000000, 20000000}
LatInputs == {0, 40, 41, 91}
LonInputs == {-181, -90, -74, 0}
AngleInputs == {0, 45, 90, 120}
\* 3000 is the default; the others put energy_mt at and just under 0.01, 1
\* and 1000 MT, and damage_radius_km at a city distance, for a 10 m body at
\* 100 km/s and 90 degrees
DensityInputs == {16, 17, 1598, 1599, 1795, 3000, 1598166, 1598167}

\* the tables find_nearest_city is run on: sequences of distinct entries of
\* the excerpt, the source's own order among them
RECURSIVE SeqsOver(_, _)
SeqsOver(S, n) ==
    IF n = 0 THEN {<< >>}
    ELSE LET shorter == SeqsOver(S, n - 1)
         IN  shorter \cup
             {Append(t, c) : t \in {u \in shorter : Len(u) = n - 1}, c \in S}

CityTables ==
    {t \in SeqsOver({MAJOR_CITIES[i] : i \in 1..Len(MAJOR_CITIES)}, MaxCities) :
        \A i, j \in 1..Len(t) : i # j => t[i].city # t[j].city}

\* magnitudes the 32-bit arithmetic of the model carries
Representable(diameter_m, density_kg_m3) ==
    diameter_m * diameter_m * diameter_m
        <= 2000000000 \div ((density_kg_m3 + 1) \div 2)

ValidLatLon(lat, lon) == -90 <= lat /\ lat <= 90 /\ -180 <= lon /\ lon <= 180

\* the input domain of the spec: section 3, ImpactParameters
ValidArgs(a) ==
    /\ a.diameter_m > 0
    /\ a.velocity_km_s > 0
    /\ a.distance_km >= 0
    /\ ValidLatLon(a.lat, a.lon)
    /\ a.angle_deg > 0 /\ a.angle_deg <= 90
    /\ a.density_kg_m3 > 0

NoArgs == [diameter_m |-> 0, velocity_km_s |-> 0, distance_km |-> 0,
           lat |-> 0, lon |-> 0, angle_deg |-> 0, density_kg_m3 |-> 0]

NoSim == [mass_kg |-> 0, energy_j |-> 0, energy_mt |-> 0,
          crater_diameter_m |-> 0, damage_radius_km |-> 0,
          proximity_risk |-> 0, impact_risk |-> 0, combined_risk |-> 0,
          impact_class |-> "", casualty_estimate |-> "",
          nearest_city |-> "", city_distance_km |-> 0, city_affected |-> FALSE]

NoReport == [returned |-> FALSE,
             mass_kg |-> 0, impact_energy_j |-> 0, impact_energy_mt |-> 0,
             crater_diameter_m |-> 0, damage_radius_km |-> 0,
             proximity_risk |-> 0, impact_risk |-> 0,
             combined_risk_factor |-> 0,
             impact_classification |-> "", casualty_estimate |-> "",
             nearest_city |-> "", city_distance_km |-> 0,
             city_affected |-> FALSE]

NoMitigation == [tier |-> "", city |-> "", warning |-> FALSE,
                 zone_km |-> 0, outer_km |-> 0]

Header == [kind |-> "header", Timestamp |-> 0]

\* ------------------------------------------------------------------------
\* simulate_meteor_impact as steps
\* ------------------------------------------------------------------------
\* mutation: the lookup is started right after the physics
SimPhysicsThenNearest ==
    /\ pc = "sim_physics"
    /\ LET mass_kg == MassKg(args.diameter_m, args.density_kg_m3)
           energy_j == EnergyJ(mass_kg, args.velocity_km_s, args.angle_deg)
           crater_diameter_m ==
               CraterDiameterM(mass_kg, args.velocity_km_s, args.angle_deg)
       IN  sim' = [sim EXCEPT !.mass_kg = mass_kg,
                              !.energy_j = energy_j,
                              !.energy_mt = EnergyMt(energy_j),
                              !.crater_diameter_m = crater_diameter_m,
                              !.damage_radius_km =
                                  DamageRadiusKm(crater_diameter_m)]
    /\ steps' = Append(steps, "physics")
    /\ pc' = "sim_nearest"
    /\ UNCHANGED << cities, caller, args, result, mitigation, console, clock,
                    csv_exists, csv, accepted,
                    batch_vars >>

\* radius_m .. damage_radius_km
SimPhysics ==
    /\ pc = "sim_physics"
    /\ LET mass_kg == MassKg(args.diameter_m, args.density_kg_m3)
           energy_j == EnergyJ(mass_kg, args.velocity_km_s, args.angle_deg)
           crater_diameter_m ==
               CraterDiameterM(mass_kg, args.velocity_km_s, args.angle_deg)
       IN  sim' = [sim EXCEPT !.mass_kg = mass_kg,
                              !.energy_j = energy_j,
                              !.energy_mt = EnergyMt(energy_j),
                              !.crater_diameter_m = crater_diameter_m,
                              !.damage_radius_km =
                                  DamageRadiusKm(crater_diameter_m)]
    /\ steps' = Append(steps, "physics")
    /\ pc' = "sim_risk"
    /\ UNCHANGED << cities, caller, args, result, mitigation, console, clock,
                    csv_exists, csv, accepted,
                    batch_vars >>

\* proximity_risk, impact_risk, combined_risk
SimRisk ==
    /\ pc = "sim_risk"
    /\ LET proximity_risk == ProximityRisk(args.distance_km)
           impact_risk == ImpactRisk(sim.energy_mt, sim.damage_radius_km)
       IN  sim' = [sim EXCEPT !.proximity_risk = proximity_risk,
                              !.impact_risk = impact_risk,
                              !.combined_risk =
                                  CombinedRisk(proximity_risk, impact_risk)]
    /\ steps' = Append(steps, "risk")
    /\ pc' = "sim_classify"
    /\ UNCHANGED << cities, caller, args, result, mitigation, console, clock,
                    csv_exists, csv, accepted,
                    batch_vars >>

\* impact_class, casualty_estimate
SimClassify ==
    /\ pc = "sim_classify"
    /\ sim' = [sim EXCEPT !.impact_class = ImpactClass(sim.energy_mt),
                          !.casualty_estimate = CasualtyEstimate(sim.energy_mt)]
    /\ steps' = Append(steps, "classification")
    /\ pc' = "sim_nearest"
    /\ UNCHANGED << cities, caller, args, result, mitigation, console, clock,
                    csv_exists, csv, accepted,
                    batch_vars >>

\* find_nearest_city, city_affected and the return statement
SimNearest ==
    /\ pc = "sim_nearest"
    /\ LET found == find_nearest_city(cities, args.lat, args.lon)
           city_affected ==
               CityAffected(found.distance_km, sim.damage_radius_km)
       IN  /\ sim' = [sim EXCEPT !.nearest_city = found.nearest,
                                 !.city_distance_km = found.distance_km,
                                 !.city_affected = city_affected]
           /\ result' = [returned |-> TRUE,
                         mass_kg |-> sim.mass_kg,
                         impact_energy_j |-> sim.energy_j,
                         impact_energy_mt |-> sim.energy_mt,
                         crater_diameter_m |-> sim.crater_diameter_m,
                         damage_radius_km |-> sim.damage_radius_km,
                         proximity_risk |-> sim.proximity_risk,
                         impact_risk |-> sim.impact_risk,
                         combined_risk_factor |-> sim.combined_risk,
                         impact_classification |-> sim.impact_class,
                         casualty_estimate |-> sim.casualty_estimate,
                         nearest_city |-> found.nearest,
                         city_distance_km |-> found.distance_km,
                         city_affected |-> city_affected]
    /\ steps' = Append(steps, "nearest")
    /\ pc' = IF caller = "interactive_predictor" THEN "mitigate" ELSE "returned"
    /\ UNCHANGED << cities, caller, args, mitigation, console, clock,
                    csv_exists, csv, accepted,
                    batch_vars >>

\* ------------------------------------------------------------------------
\* interactive_predictor
\* ------------------------------------------------------------------------
\* mutation: the distance is not checked
ValidateNoDistance(diameter_m, velocity_km_s, distance_km, lat, lon) ==
    IF ~(-90 <= lat /\ lat <= 90)
    THEN "ERROR: Invalid latitude! Must be between -90 and 90."
    ELSE IF ~(-180 <= lon /\ lon <= 180)
    THEN "ERROR: Invalid longitude! Must be between -180 and 180."
    ELSE IF diameter_m <= 0 \/ velocity_km_s <= 0
    THEN "ERROR: Invalid values! All measurements must be positive."
    ELSE ""

\* the checks under "Validate inputs": the message printed before the early
\* return, "" when every check passes
Validate(diameter_m, velocity_km_s, distance_km, lat, lon) ==
    IF ~(-90 <= lat /\ lat <= 90)
    THEN "ERROR: Invalid latitude! Must be between -90 and 90."
    ELSE IF ~(-180 <= lon /\ lon <= 180)
    THEN "ERROR: Invalid longitude! Must be between -180 and 180."
    ELSE IF diameter_m <= 0 \/ velocity_km_s <= 0 \/ distance_km < 0
    THEN "ERROR: Invalid values! All measurements must be positive."
    ELSE ""

\* a prompt answered with text float() does not parse: the except branch
InputNotNumeric ==
    /\ pc = "idle"
    /\ clock < MaxCalls
    /\ clock' = clock + 1
    /\ caller' = "interactive_predictor"
    /\ args' = NoArgs
    /\ sim' = NoSim
    /\ steps' = << >>
    /\ result' = NoReport
    /\ mitigation' = NoMitigation
    /\ console' = "ERROR: Invalid input. Please enter numeric values."
    /\ pc' = "idle"
    /\ UNCHANGED << cities, csv_exists, csv, accepted,
                    batch_vars >>

\* the five prompts, the validation, and the call of simulate_meteor_impact
\* with its default angle and density
ReadInputs ==
    /\ pc = "idle"
    /\ clock < MaxCalls
    /\ \E diameter_m \in DiameterInputs, velocity_km_s \in VelocityInputs,
          distance_km \in DistanceInputs, lat \in LatInputs, lon \in LonInputs :
          /\ args' = [diameter_m |-> diameter_m,
                      velocity_km_s |-> velocity_km_s,
                      distance_km |-> distance_km, lat |-> lat, lon |-> lon,
                      angle_deg |-> DEFAULT_ANGLE_DEG,
                      density_kg_m3 |-> DEFAULT_DENSITY_KG_M3]
          /\ console' = Validate(diameter_m, velocity_km_s, distance_km,
                                 lat, lon)
    /\ clock' = clock + 1
    /\ caller' = "interactive_predictor"
    /\ sim' = NoSim
    /\ steps' = << >>
    /\ result' = NoReport
    /\ mitigation' = NoMitigation
    /\ pc' = IF console' = "" THEN "sim_physics" ELSE "idle"
    /\ accepted' = IF console' = "" THEN Append(accepted, clock') ELSE accepted
    /\ UNCHANGED << cities, csv_exists, csv,
                    batch_vars >>

\* mitigation = get_mitigation_strategy(...)
Mitigate ==
    /\ pc = "mitigate"
    /\ mitigation' = get_mitigation_strategy(result.combined_risk_factor,
                                             result.city_affected,
                                             result.nearest_city,
                                             result.damage_radius_km)
    /\ steps' = Append(steps, "mitigation")
    /\ pc' = "save"
    /\ UNCHANGED << cities, caller, args, sim, result, console, clock,
                    csv_exists, csv, accepted,
                    batch_vars >>

\* mutation: the file is opened with mode 'w'
SaveCsvTruncating ==
    /\ pc = "save"
    /\ LET file_exists == csv_exists
           row == [kind |-> "row", Timestamp |-> clock]
       IN  csv' = IF ~file_exists THEN << Header, row >> ELSE << row >>
    /\ csv_exists' = TRUE
    /\ console' = "Prediction saved"
    /\ pc' = "idle"
    /\ UNCHANGED << cities, caller, args, sim, steps, result, mitigation,
                    clock, accepted,
                    batch_vars >>

\* the report is printed and the row is appended to the CSV log
SaveCsv ==
    /\ pc = "save"
    /\ LET file_exists == csv_exists
           row == [kind |-> "row", Timestamp |-> clock]
       IN  csv' = IF ~file_exists THEN << Header, row >> ELSE Append(csv, row)
    /\ csv_exists' = TRUE
    /\ console' = "Prediction saved"
    /\ pc' = "idle"
    /\ UNCHANGED << cities, caller, args, sim, steps, result, mitigation,
                    clock, accepted,
                    batch_vars >>

\* the main loop: 'Q' after a prediction ends the session
Quit ==
    /\ pc = "idle"
    /\ clock > 0
    /\ pc' = "quit"
    /\ UNCHANGED << cities, caller, args, sim, steps, result, mitigation,
                    console, clock, csv_exists, csv, accepted,
                    batch_vars >>

\* ------------------------------------------------------------------------
\* meteor_csv_api.py: the batch collector
\* ------------------------------------------------------------------------
\* days=150 of main and days=7 of fetch_neo; dates are days from start_date
NEO_DAYS == 150

CHUNK_DAYS == 7

START_DATE == 0

END_DATE == START_DATE + NEO_DAYS

\* the indices of the list MITIGATION_STRATEGIES
MITIGATION_STRATEGIES == 0 .. 19

\* dist_au * 149597870.7, for a distance in 0.001 AU
AU_KM == 149598

\* "" or None in a response
Blank == -1

\* text that float() does not accept
NotANumber == -2

\* a finite float such as 1e200, whose cube and whose square are beyond the
\* largest float
Huge == 1000000000

\* float ** int beyond the largest float raises; no value is returned
OverflowError == -1

\* energy in TJ, energy_mt in 0.001 MT, the risk in 0.0001 points before
\* round(risk, 1) and in 0.1 points after it
calculate_risk_factor(diameter, velocity, distance_km) ==
    IF diameter = Huge \/ velocity = Huge THEN OverflowError ELSE
    LET energy == MulDiv(MassKg(diameter, 3000), velocity * velocity, 20000)
                      \div 100000
        energy_mt == MulDiv(energy, 1000, TNT_EQUIVALENT_J)
        risk == Min(1000000,
                    Max(0, energy_mt * 5
                           + (MAX_DISTANCE_KM - distance_km) \div 10))
    IN  RoundHalfEven(risk, 1000)

\* the index into MITIGATION_STRATEGIES stands for the text it selects
choose_mitigation(risk) ==
    Min(Cardinality(MITIGATION_STRATEGIES) - 1, risk \div 50)

\* what the three services hold; a request that succeeds answers from it
NeoObject(day, name, ok, diameter, velocity, distance) ==
    [day |-> day, name |-> name, ok |-> ok, diameter_m |-> diameter,
     velocity_km_s |-> velocity, distance_km |-> distance]

NeoFeedA ==
      << NeoObject(3, "2021 AB", TRUE, 100, 20, 5000000),
         NeoObject(3, "2021 AC", FALSE, 10, 20, 1000000),
         NeoObject(4, "2021 AD", TRUE, 10, 20, 1000000),
         NeoObject(12, "2021 AE", TRUE, 10, 20, 20000000),
         NeoObject(150, "2021 AF", TRUE, 1, 100, 10000000) >>

NeoFeedB ==
      << NeoObject(7, "2021 BA", TRUE, 10, 100, 0),
         NeoObject(8, "2021 BB", TRUE, 100, 100, 9000000) >>

\* event[0], event[1], event[4], event[7]; ok is FALSE for an event that
\* is too short or holds text where a number is read
FireballEvent(f0, ok, f1, f4, f7) ==
    [f0 |-> f0, ok |-> ok, f1 |-> f1, f4 |-> f4, f7 |-> f7]

FireballFeed ==
      << FireballEvent("2021-01-01", TRUE, Blank, Blank, Blank),
         FireballEvent("2021-02-02", FALSE, Blank, Blank, Blank),
         FireballEvent("2021-03-03", TRUE, 5000000, 20, 10),
         FireballEvent("2021-04-04", TRUE, 20000000, 20, 10) >>

\* des, dist (0.001 AU), v_rel and h of a row; ok is FALSE for a row whose
\* dist or v_rel is not a number
CadRow(des, ok, dist, v_rel, h) ==
    [des |-> des, ok |-> ok, dist |-> dist, v_rel |-> v_rel, h |-> h]

CadData ==
    << CadRow("433", TRUE, 50, 20, 10),
       CadRow("2020 XX", FALSE, 50, 20, 10),
       CadRow("2020 XY", TRUE, 10, 100, Blank),
       CadRow("2020 XZ", TRUE, 100, 20, 8),
       CadRow("99942", TRUE, 0, 20, NotANumber) >>

\* the "fields" and "data" of the CAD response
CadFeed(fields) ==
    [fields |-> fields, data |-> IF fields = {} THEN << >> ELSE CadData]

\* the services' contents a run is checked on
Feeds ==
    { [neo |-> NeoFeedA, fireball |-> FireballFeed,
       cad |-> CadFeed({"des", "dist", "v_rel", "h"})],
      [neo |-> NeoFeedB, fireball |-> FireballFeed,
       cad |-> CadFeed({"des", "dist", "v_rel"})],
      [neo |-> NeoFeedA, fireball |-> << >>,
       cad |-> CadFeed({"des", "dist", "h"})],
      [neo |-> NeoFeedB, fireball |-> << >>, cad |-> CadFeed({})] }

NoFeeds == [neo |-> << >>, fireball |-> << >>, cad |-> CadFeed({})]

\* a dict appended to neos, fireballs or cad_list
Object(source, name, diameter, velocity, distance) ==
    [source |-> source, name |-> name, diameter_m |-> diameter,
     velocity_km_s |-> velocity, distance_km |-> distance]

\* the objects of the response to a request for the days from..to
NeoResponse(feed, from, to) ==
    SelectSeq(feed, LAMBDA obj : from <= obj.day /\ obj.day <= to)

\* the two for loops of fetch_neo inside the try: the first object that
\* raises ends them
RECURSIVE NeoLoop(_, _, _)
NeoLoop(objs, i, acc) ==
    IF i > Len(objs) THEN [neos |-> acc, raised |-> FALSE]
    ELSE IF ~objs[i].ok THEN [neos |-> acc, raised |-> TRUE]
    ELSE IF objs[i].distance_km <= MAX_DISTANCE_KM
         THEN NeoLoop(objs, i + 1,
                      Append(acc, Object("NEO", objs[i].name,
                                         objs[i].diameter_m,
                                         objs[i].velocity_km_s,
                                         objs[i].distance_km)))
         ELSE NeoLoop(objs, i + 1, acc)

\* the for loop of fetch_fireball: an event that raises is skipped
RECURSIVE FireballLoop(_, _, _)
FireballLoop(events, i, acc) ==
    IF i > Len(events) THEN acc
    ELSE IF ~events[i].ok THEN FireballLoop(events, i + 1, acc)
    ELSE LET event == events[i]
             diam == IF event.f7 = Blank THEN 1 ELSE event.f7
             vel == IF event.f4 = Blank THEN 0 ELSE event.f4
             dist == IF event.f1 = Blank THEN MAX_DISTANCE_KM ELSE event.f1
         IN  IF dist <= MAX_DISTANCE_KM
             THEN FireballLoop(events, i + 1,
                               Append(acc, Object("Fireball", event.f0,
                                                  diam, vel, dist)))
             ELSE FireballLoop(events, i + 1, acc)

\* diameter = 1329 / sqrt(0.14) * 10**(-0.2 * H), on the magnitudes of CadData
DiameterFromH(H) ==
    CASE H = 8 -> 89
      [] H = 10 -> 36

\* the for loop of fetch_cad: a row that raises is skipped
RECURSIVE CadLoop(_, _, _, _)
CadLoop(rows, has_h, i, acc) ==
    IF i > Len(rows) THEN acc
    ELSE IF ~rows[i].ok THEN CadLoop(rows, has_h, i + 1, acc)
    ELSE LET row == rows[i]
             dist_km == row.dist * AU_KM
             diameter == IF has_h /\ row.h # Blank /\ row.h # NotANumber
                         THEN DiameterFromH(row.h) ELSE 1
         IN  IF dist_km <= MAX_DISTANCE_KM
             THEN CadLoop(rows, has_h, i + 1,
                          Append(acc, Object("CAD", row.des, diameter,
                                             row.v_rel, dist_km)))
             ELSE CadLoop(rows, has_h, i + 1, acc)

\* a line printed by an except branch or before an early return
Line(feed, what, window) == [feed |-> feed, what |-> what, window |-> window]

\* the loop of main that sets risk_factor and mitigation_strategy
ScoredObject(obj) ==
    LET risk_factor == calculate_risk_factor(obj.diameter_m,
                                             obj.velocity_km_s,
                                             obj.distance_km)
    IN  [source |-> obj.source, name |-> obj.name,
         diameter_m |-> obj.diameter_m, velocity_km_s |-> obj.velocity_km_s,
         distance_km |-> obj.distance_km, risk_factor |-> risk_factor,
         mitigation_strategy |-> choose_mitigation(risk_factor)]

Scored(objs) == [i \in 1 .. Len(objs) |-> ScoredObject(objs[i])]

\* the objects for which calculate_risk_factor raises
Raising(objs) ==
    { i \in 1 .. Len(objs) :
        calculate_risk_factor(objs[i].diameter_m, objs[i].velocity_km_s,
                              objs[i].distance_km) = OverflowError }

\* the objects the loop has scored when it ends or is left by an exception
ScoredBeforeRaise(objs) ==
    IF Raising(objs) = {} THEN Scored(objs)
    ELSE Scored(SubSeq(objs, 1,
                       (CHOOSE i \in Raising(objs) :
                            \A j \in Raising(objs) : i <= j) - 1))

\* writer.writeheader()
FIELDNAMES ==
    [source |-> "source", name |-> "name", diameter_m |-> "diameter_m",
     velocity_km_s |-> "velocity_km_s", distance_km |-> "distance_km",
     risk_factor |-> "risk_factor",
     mitigation_strategy |-> "mitigation_strategy"]

\* main() of the collector not started
BatchIdle ==
    /\ main_pc = "start"
    /\ feeds = NoFeeds
    /\ called = << >>
    /\ start_date = 0
    /\ end_date = 0
    /\ current = 0
    /\ requests = << >>
    /\ failures = 0
    /\ printed = << >>
    /\ neos = << >>
    /\ fireballs = << >>
    /\ cad_objects = << >>
    /\ all_objects = << >>
    /\ csv_file = << >>

\* the interactive tool before its first call
PredictorIdle ==
    /\ cities = MAJOR_CITIES
    /\ pc = "idle"
    /\ caller = ""
    /\ args = NoArgs
    /\ sim = NoSim
    /\ steps = << >>
    /\ result = NoReport
    /\ mitigation = NoMitigation
    /\ console = ""
    /\ clock = 0
    /\ csv_exists = FALSE
    /\ csv = << >>
    /\ accepted = << >>

Init ==
    /\ PredictorIdle
    /\ BatchIdle

Next ==
    \/ InputNotNumeric
    \/ ReadInputs
    \/ SimPhysics
    \/ SimRisk
    \/ SimClassify
    \/ SimNearest
    \/ Mitigate
    \/ SaveCsv
    \/ Quit

\* a session of the interactive tool
Spec == Init /\ [][Next]_vars

\* ------------------------------------------------------------------------
\* simulate_meteor_impact called on its own
\* ------------------------------------------------------------------------
SimArgs ==
    {a \in [diameter_m : {0, 1, 10, 100}, velocity_km_s : VelocityInputs,
            distance_km : DistanceInputs, lat : {0, 40, 41},
            lon : {-90, -74, 0}, angle_deg : AngleInputs,
            density_kg_m3 : DensityInputs] :
        Representable(a.diameter_m, a.density_kg_m3)}

CallSimulate ==
    /\ pc = "idle"
    /\ caller' = "direct"
    /\ args' \in SimArgs
    /\ sim' = NoSim
    /\ steps' = << >>
    /\ result' = NoReport
    /\ pc' = "sim_physics"
    /\ UNCHANGED << cities, mitigation, console, clock, csv_exists, csv, accepted,
                    batch_vars >>

InitSimulate ==
    /\ cities \in {<< >>, MAJOR_CITIES}
    /\ pc = "idle"
    /\ caller = ""
    /\ args = NoArgs
    /\ sim = NoSim
    /\ steps = << >>
    /\ result = NoReport
    /\ mitigation = NoMitigation
    /\ console = ""
    /\ clock = 0
    /\ csv_exists = FALSE
    /\ csv = << >>
    /\ accepted = << >>
    /\ BatchIdle

NextSimulate ==
    \/ CallSimulate
    \/ SimPhysics
    \/ SimRisk
    \/ SimClassify
    \/ SimNearest

SpecSimulate == InitSimulate /\ [][NextSimulate]_vars

\* ------------------------------------------------------------------------
\* find_nearest_city called on its own, on any table
\* ------------------------------------------------------------------------
CallNearest ==
    /\ pc = "idle"
    /\ caller' = "find_nearest_city"
    /\ \E lat \in {0, 40, 41, 90}, lon \in {-90, -74, 0} :
          /\ args' = [NoArgs EXCEPT !.lat = lat, !.lon = lon]
          /\ LET found == find_nearest_city(cities, lat, lon)
             IN  sim' = [NoSim EXCEPT !.nearest_city = found.nearest,
                                      !.city_distance_km = found.distance_km]
    /\ pc' = "returned"
    /\ UNCHANGED << cities, steps, result, mitigation, console, clock,
                    csv_exists, csv, accepted,
                    batch_vars >>

InitNearest ==
    /\ cities \in CityTables
    /\ pc = "idle"
    /\ caller = ""
    /\ args = NoArgs
    /\ sim = NoSim
    /\ steps = << >>
    /\ result = NoReport
    /\ mitigation = NoMitigation
    /\ console = ""
    /\ clock = 0
    /\ csv_exists = FALSE
    /\ csv = << >>
    /\ accepted = << >>
    /\ BatchIdle

NextNearest == CallNearest

SpecNearest == InitNearest /\ [][NextNearest]_vars

\* ------------------------------------------------------------------------
\* get_mitigation_strategy called on its own, on every score 0.0 .. 100.0
\* ------------------------------------------------------------------------
CallMitigation ==
    /\ pc = "idle"
    /\ caller' = "get_mitigation_strategy"
    /\ \E risk_factor \in 0..1000, city_affected \in BOOLEAN,
          nearest_city \in {"New York, USA", "Unknown location"},
          damage_radius_km \in {0, 6338, 60975} :
          /\ result' = [NoReport EXCEPT
                            !.combined_risk_factor = risk_factor,
                            !.city_affected = city_affected,
                            !.nearest_city = nearest_city,
                            !.damage_radius_km = damage_radius_km]
          /\ mitigation' = get_mitigation_strategy(risk_factor, city_affected,
                                                   nearest_city,
                                                   damage_radius_km)
    /\ pc' = "returned"
    /\ UNCHANGED << cities, args, sim, steps, console, clock, csv_exists,
                    csv, accepted,
                    batch_vars >>

NextMitigation == CallMitigation

SpecMitigation == Init /\ [][NextMitigation]_vars

\* ------------------------------------------------------------------------
\* meteor_csv_api.py: main
\* ------------------------------------------------------------------------
\* main() calls fetch_neo(start_date, end_date)
StartMain ==
    /\ main_pc = "start"
    /\ main_pc' = "fetch_neo"
    /\ start_date' = START_DATE
    /\ end_date' = END_DATE
    /\ current' = START_DATE
    /\ neos' = << >>
    /\ called' = Append(called, "fetch_neo")
    /\ UNCHANGED << feeds, requests, failures, printed, fireballs,
                    cad_objects, all_objects, csv_file, predictor_vars >>

\* one pass of the while loop of fetch_neo
FetchNeoChunk ==
    /\ main_pc = "fetch_neo"
    /\ current < end_date
    /\ LET chunk_end == Min(current + CHUNK_DAYS, end_date)
           window == << current, chunk_end >>
       IN  /\ requests' = Append(requests, window)
           /\ \/ \* requests.get, raise_for_status or resp.json raises
                 /\ failures < MaxFailures
                 /\ failures' = failures + 1
                 /\ printed' = Append(printed,
                                      Line("NEO", "Error fetching", window))
                 /\ neos' = neos
              \/ \* the response is read
                 /\ LET r == NeoLoop(NeoResponse(feeds.neo, current,
                                                 chunk_end), 1, neos)
                    IN  /\ neos' = r.neos
                        /\ printed' =
                             IF r.raised
                             THEN Append(printed, Line("NEO", "Error fetching",
                                                       window))
                             ELSE printed
                 /\ failures' = failures
           /\ current' = chunk_end + 1
    /\ UNCHANGED << feeds, start_date, end_date, main_pc, called, fireballs, cad_objects,
                    all_objects, csv_file, predictor_vars >>

\* the while loop ends, fetch_neo returns and main calls fetch_fireball
FetchNeoReturn ==
    /\ main_pc = "fetch_neo"
    /\ ~(current < end_date)
    /\ main_pc' = "fetch_fireball"
    /\ called' = Append(called, "fetch_fireball")
    /\ UNCHANGED << feeds, start_date, end_date, current, requests, failures, printed, neos,
                    fireballs, cad_objects, all_objects, csv_file,
                    predictor_vars >>

\* mutation: fetch_fireball without its outer try/except
FetchFireballUncaught ==
    /\ main_pc = "fetch_fireball"
    /\ \/ /\ failures < MaxFailures
          /\ failures' = failures + 1
          /\ printed' = printed
          /\ fireballs' = fireballs
          /\ main_pc' = "raised"
          /\ called' = called
       \/ /\ fireballs' = FireballLoop(feeds.fireball, 1, << >>)
          /\ UNCHANGED << failures, printed >>
          /\ main_pc' = "fetch_cad"
          /\ called' = Append(called, "fetch_cad")
    /\ UNCHANGED << feeds, start_date, end_date, current, requests, neos, cad_objects, all_objects,
                    csv_file, predictor_vars >>

\* fetch_fireball, then main calls fetch_cad
FetchFireball ==
    /\ main_pc = "fetch_fireball"
    /\ \/ \* requests.get, raise_for_status, resp.json or data.get raises
          /\ failures < MaxFailures
          /\ failures' = failures + 1
          /\ printed' = Append(printed,
                               Line("Fireball", "Error fetching", << >>))
          /\ fireballs' = << >>
       \/ \* the response is read
          /\ fireballs' = FireballLoop(feeds.fireball, 1, << >>)
          /\ UNCHANGED << failures, printed >>
    /\ main_pc' = "fetch_cad"
    /\ called' = Append(called, "fetch_cad")
    /\ UNCHANGED << feeds, start_date, end_date, current, requests, neos, cad_objects, all_objects,
                    csv_file, predictor_vars >>

\* fetch_cad
FetchCad ==
    /\ main_pc = "fetch_cad"
    /\ \/ \* requests.get, raise_for_status, resp.json or data.get raises
          /\ failures < MaxFailures
          /\ failures' = failures + 1
          /\ printed' = Append(printed, Line("CAD", "Error fetching", << >>))
          /\ cad_objects' = << >>
       \/ \* the response is read
          /\ LET fields == feeds.cad.fields
             IN  IF fields = {}
                 THEN /\ printed' = Append(printed,
                                           Line("CAD", "No fields", << >>))
                      /\ cad_objects' = << >>
                 ELSE IF ~({"des", "dist", "v_rel"} \subseteq fields)
                 THEN /\ printed' = Append(printed,
                                           Line("CAD", "Missing required field",
                                                << >>))
                      /\ cad_objects' = << >>
                 ELSE /\ printed' = printed
                      /\ cad_objects' = CadLoop(feeds.cad.data, "h" \in fields,
                                                1, << >>)
          /\ failures' = failures
    /\ main_pc' = "score"
    /\ UNCHANGED << feeds, start_date, end_date, current, requests, called, neos, fireballs,
                    all_objects, csv_file, predictor_vars >>

\* all_objects = neos + fireballs + cad_objects and the scoring loop; an
\* exception of calculate_risk_factor is caught nowhere and ends main
ScoreObjects ==
    /\ main_pc = "score"
    /\ all_objects' = ScoredBeforeRaise(neos \o fireballs \o cad_objects)
    /\ main_pc' = IF Raising(neos \o fireballs \o cad_objects) = {}
                  THEN "write" ELSE "raised"
    /\ UNCHANGED << feeds, start_date, end_date, current, requests, failures, printed, called, neos,
                    fireballs, cad_objects, csv_file, predictor_vars >>

\* CSV_FILE is opened with mode "w" and written
WriteCsv ==
    /\ main_pc = "write"
    /\ csv_file' = << FIELDNAMES >> \o all_objects
    /\ main_pc' = "done"
    /\ UNCHANGED << feeds, start_date, end_date, current, requests, failures, printed, called, neos,
                    fireballs, cad_objects, all_objects, predictor_vars >>

InitBatch ==
    /\ PredictorIdle
    /\ main_pc = "start"
    /\ feeds \in Feeds
    /\ start_date = 0
    /\ end_date = 0
    /\ current = 0
    /\ requests = << >>
    /\ failures = 0
    /\ printed = << >>
    /\ called = << >>
    /\ neos = << >>
    /\ fireballs = << >>
    /\ cad_objects = << >>
    /\ all_objects = << >>
    /\ csv_file = << >>

NextBatch ==
    \/ StartMain
    \/ FetchNeoChunk
    \/ FetchNeoReturn
    \/ FetchFireball
    \/ FetchCad
    \/ ScoreObjects
    \/ WriteCsv

\* one run of the batch collector
SpecBatch == InitBatch /\ [][NextBatch]_vars

\* ------------------------------------------------------------------------
\* the scoring loop of main on the lists the fetchers can return
\* ------------------------------------------------------------------------
ScoreDiameters == {1, 100, Huge}

ScoreVelocities == {0, 100, Huge}

ScoreDistances == {-1000000, 4000, 5000000, 10000000}

\* the objects a fetcher can append: any floats, the distance <= 1e7
ScoreObjectInputs ==
    { Object("NEO", "2021 AB", d, v, km) :
        d \in ScoreDiameters, v \in ScoreVelocities, km \in ScoreDistances }

\* main at line 188: the three fetchers have returned
InitScore ==
    /\ PredictorIdle
    /\ main_pc = "score"
    /\ feeds = NoFeeds
    /\ called = << "fetch_neo", "fetch_fireball", "fetch_cad" >>
    /\ start_date = START_DATE
    /\ end_date = END_DATE
    /\ current = 0
    /\ requests = << >>
    /\ failures = 0
    /\ printed = << >>
    /\ neos \in UNION { [1 .. n -> ScoreObjectInputs] : n \in 1 .. MaxObjects }
    /\ fireballs = << >>
    /\ cad_objects = << >>
    /\ all_objects = << >>
    /\ csv_file = << >>

NextScore ==
    \/ ScoreObjects
    \/ WriteCsv

SpecScore == InitScore /\ [][NextScore]_vars

\* ------------------------------------------------------------------------
\* fetch_neo called on its own
\* ------------------------------------------------------------------------
StartDates == 0 .. 1

\* fetch_neo(start_date, end_date) with start_date < end_date
CallFetchNeo ==
    /\ main_pc = "start"
    /\ \E s \in StartDates : \E e \in s + 1 .. s + MaxSpan :
          /\ start_date' = s
          /\ end_date' = e
          /\ current' = s
    /\ neos' = << >>
    /\ main_pc' = "fetch_neo"
    /\ UNCHANGED << feeds, called, requests, failures, printed, fireballs,
                    cad_objects, all_objects, csv_file, predictor_vars >>

\* the while loop ends and neos is returned to the caller
FetchNeoReturnDirect ==
    /\ main_pc = "fetch_neo"
    /\ ~(current < end_date)
    /\ main_pc' = "returned"
    /\ UNCHANGED << feeds, start_date, end_date, current, requests, failures,
                    printed, called, neos, fireballs, cad_objects, all_objects,
                    csv_file, predictor_vars >>

NextNeo ==
    \/ CallFetchNeo
    \/ FetchNeoChunk
    \/ FetchNeoReturnDirect

SpecNeo == InitBatch /\ [][NextNeo]_vars


\* ========================================================================
\* Properties
\* ========================================================================

\* C1: for every valid input the returned proximity_risk, impact_risk and
\* combined_risk_factor each lie in [0,100]
C1_RisksInRange ==
    (result.returned /\ ValidArgs(args)) =>
        /\ result.proximity_risk \in 0..100000
        /\ result.impact_risk \in 0..100000
        /\ result.combined_risk_factor \in 0..1000

\* a valid call beyond the 1e7 km horizon whose impact risk hits the cap:
\* both clamps are at work
C1_Witness ==
    /\ result.returned
    /\ ValidArgs(args)
    /\ args.distance_km > MAX_DISTANCE_KM
    /\ result.proximity_risk = 0
    /\ 80000 + result.damage_radius_km > 100000
    /\ result.impact_risk = 100000

\* the tier the claim assigns to an energy (0.001 MT): lower bounds inclusive
C2_Tier(energy_mt) ==
    IF energy_mt < 10 THEN 1
    ELSE IF energy_mt < 1000 THEN 2
    ELSE IF energy_mt < 1000000 THEN 3
    ELSE 4

\* C2: the energy selects one of four tiers, boundaries 0.01, 1 and 1000 MT
\* in the upper tier, and impact_risk, impact_classification and
\* casualty_estimate of a report all come from that tier
C2_SameTier ==
    result.returned =>
        LET t == C2_Tier(result.impact_energy_mt)
            dr == result.damage_radius_km
        IN  /\ result.impact_risk =
                  << 5000, Min(50000, 20000 + dr * 10),
                     Min(80000, 50000 + dr * 5), Min(100000, 80000 + dr) >>[t]
            /\ result.impact_classification =
                  << "Small fireball - harmless airburst",
                     "Tunguska-scale regional event",
                     "City to country-scale devastation",
                     "Global catastrophic impact" >>[t]
            /\ result.casualty_estimate =
                  << "0-10 (minor injuries from debris)",
                     "100s-1,000s (within 50km radius)",
                     "10,000s-100,000s (regional catastrophe)",
                     "Millions to billions (mass extinction event)" >>[t]

\* a report whose energy is exactly 1 MT, in the third tier
C2_Witness ==
    /\ result.returned
    /\ ValidArgs(args)
    /\ result.impact_energy_mt = 1000
    /\ result.impact_classification = "City to country-scale devastation"
    /\ result.casualty_estimate = "10,000s-100,000s (regional catastrophe)"
    /\ result.impact_risk = Min(80000, 50000 + result.damage_radius_km * 5)
    /\ result.impact_risk > 50000

\* C3: get_mitigation_strategy maps [0,20) to LOW, [20,50) to MODERATE,
\* [50,80) to HIGH and [80,100] to EXTREME, whatever the other arguments
C3_MitigationTier ==
    (caller = "get_mitigation_strategy" /\ pc = "returned") =>
        LET risk_factor == result.combined_risk_factor
        IN  /\ (0 <= risk_factor /\ risk_factor < 200)
                   <=> mitigation.tier = "LOW"
            /\ (200 <= risk_factor /\ risk_factor < 500)
                   <=> mitigation.tier = "MODERATE"
            /\ (500 <= risk_factor /\ risk_factor < 800)
                   <=> mitigation.tier = "HIGH"
            /\ (800 <= risk_factor /\ risk_factor <= 1000)
                   <=> mitigation.tier = "EXTREME"

\* the score 20.0, on the boundary, answered MODERATE for an affected city
C3_Witness ==
    /\ caller = "get_mitigation_strategy"
    /\ pc = "returned"
    /\ result.combined_risk_factor = 200
    /\ result.city_affected
    /\ mitigation.tier = "MODERATE"

\* C4: in every report city_affected is true iff the reported
\* city_distance_km is at most the reported damage_radius_km
C4_CityAffectedIff ==
    result.returned =>
        (result.city_affected
            <=> result.city_distance_km <= result.damage_radius_km)

\* a valid call whose nearest city lies exactly on the damage radius
C4_Witness ==
    /\ result.returned
    /\ ValidArgs(args)
    /\ result.city_distance_km > 0
    /\ result.city_distance_km = result.damage_radius_km
    /\ result.city_affected

\* C5: on a non-empty table find_nearest_city returns an entry at minimal
\* great-circle distance, the first such entry of the table, with that
\* distance rounded to two decimals
C5_NearestIsFirstMinimum ==
    (caller = "find_nearest_city" /\ pc = "returned" /\ Len(cities) > 0) =>
        \E i \in 1..Len(cities) :
            LET d(k) == Haversine(args.lat, args.lon,
                                  cities[k].lat, cities[k].lon)
            IN  /\ sim.nearest_city = cities[i].city
                /\ sim.city_distance_km = Round2(d(i))
                /\ \A k \in 1..Len(cities) : d(i) <= d(k)
                /\ \A k \in 1..(i - 1) : d(k) > d(i)

\* two entries at the same minimal distance, the earlier one returned
C5_Witness ==
    /\ caller = "find_nearest_city"
    /\ pc = "returned"
    /\ Len(cities) = 2
    /\ Haversine(args.lat, args.lon, cities[1].lat, cities[1].lon)
         = Haversine(args.lat, args.lon, cities[2].lat, cities[2].lon)
    /\ sim.nearest_city = cities[1].city
    /\ sim.city_distance_km > 0

\* the fields of an interactive input that break section 3 of the spec
OffendingFields(a) ==
    {f \in {"diameter", "velocity", "distance", "latitude", "longitude",
            "angle"} :
        \/ f = "diameter" /\ a.diameter_m <= 0
        \/ f = "velocity" /\ a.velocity_km_s <= 0
        \/ f = "distance" /\ a.distance_km < 0
        \/ f = "latitude" /\ ~(-90 <= a.lat /\ a.lat <= 90)
        \/ f = "longitude" /\ ~(-180 <= a.lon /\ a.lon <= 180)
        \/ f = "angle" /\ ~(0 < a.angle_deg /\ a.angle_deg <= 90)}

\* the fields an error message names
FieldsNamed(message) ==
    IF message = "ERROR: Invalid latitude! Must be between -90 and 90."
    THEN {"latitude"}
    ELSE IF message = "ERROR: Invalid longitude! Must be between -180 and 180."
    THEN {"longitude"}
    ELSE {}

\* an interactive call whose five answers were numbers
NumericCall ==
    /\ caller = "interactive_predictor"
    /\ clock > 0
    /\ console # "ERROR: Invalid input. Please enter numeric values."

NoRowOfThisCall == \A i \in 1..Len(csv) : csv[i].Timestamp # clock

\* C6 as stated: every invalid input is rejected with a failure that
\* identifies an offending field, without report and without CSV row
C6_Original ==
    (NumericCall /\ OffendingFields(args) # {}) =>
        /\ pc \in {"idle", "quit"}
        /\ ~result.returned
        /\ NoRowOfThisCall
        /\ FieldsNamed(console) \cap OffendingFields(args) # {}

\* C6 amended: interactive_predictor rejects a bad latitude, else a bad
\* longitude, each with a message naming that field, else a non-positive
\* diameter or velocity or a negative distance with one shared message that
\* names no field; a rejected call yields no report, no evaluation step and
\* no CSV row; the angle is never an input, it is always the default
C6_Rejection ==
    NumericCall =>
        /\ args.angle_deg = DEFAULT_ANGLE_DEG
        /\ OffendingFields(args) # {} =>
              /\ pc \in {"idle", "quit"}
              /\ ~result.returned
              /\ steps = << >>
              /\ NoRowOfThisCall
              /\ console =
                   IF "latitude" \in OffendingFields(args)
                   THEN "ERROR: Invalid latitude! Must be between -90 and 90."
                   ELSE IF "longitude" \in OffendingFields(args)
                   THEN "ERROR: Invalid longitude! Must be between -180 and 180."
                   ELSE "ERROR: Invalid values! All measurements must be positive."

\* a negative distance rejected with the shared message while the log of an
\* earlier prediction stays as it was
C6_Witness ==
    /\ NumericCall
    /\ pc = "idle"
    /\ OffendingFields(args) = {"distance"}
    /\ console = "ERROR: Invalid values! All measurements must be positive."
    /\ ~result.returned
    /\ Len(csv) = 2
    /\ clock = 2

\* C7 as stated: with an empty table no result is returned
C7_Original == Len(cities) = 0 => ~result.returned

\* C7 amended: on an empty table the lookup signals nothing, it returns the
\* placeholder "Unknown location" at infinite distance and the report carries
\* both; on a non-empty table it returns the name of an entry at a finite
\* distance; either way simulate_meteor_impact returns a report
C7_PlaceholderOnEmptyTable ==
    /\ pc = "returned" => result.returned
    /\ result.returned =>
          IF Len(cities) = 0
          THEN /\ result.nearest_city = "Unknown location"
               /\ result.city_distance_km = Infinity
          ELSE /\ \E i \in 1..Len(cities) :
                      result.nearest_city = cities[i].city
               /\ result.city_distance_km < Infinity

\* a valid call on the empty table that returned a report
C7_Witness ==
    /\ Len(cities) = 0
    /\ ValidArgs(args)
    /\ result.returned
    /\ result.nearest_city = "Unknown location"
    /\ ~result.city_affected

\* the log a sequence of accepted calls leaves: one header, then their rows
LogOf(calls) ==
    IF calls = << >> THEN << >>
    ELSE << Header >>
         \o [i \in 1..Len(calls) |-> [kind |-> "row", Timestamp |-> calls[i]]]

\* C8: between calls the log file, absent at the start, holds one header row
\* first and then one data row per accepted prediction in call order
C8_OneHeaderThenRows ==
    pc \in {"idle", "quit"} =>
        /\ csv = LogOf(accepted)
        /\ csv_exists <=> accepted # << >>

\* three calls, one of them rejected: header and two rows
C8_Witness ==
    /\ pc = "idle"
    /\ clock = 3
    /\ console = "Prediction saved"
    /\ Len(csv) = 3
    /\ csv[1] = Header
    /\ csv[3].Timestamp = 3

EvaluationOrder ==
    << "physics", "risk", "classification", "nearest", "mitigation" >>

\* C10 as stated: the nearest-center lookup precedes the risk values
C10_Original ==
    \A i \in 1..Len(steps) :
        steps[i] = "risk" => \E j \in 1..(i - 1) : steps[j] = "nearest"

\* C10 amended: an evaluation runs physics, then the risk values and the
\* classification, then the nearest-center lookup, then mitigation last
C10_FixedOrder ==
    /\ Len(steps) <= Len(EvaluationOrder)
    /\ \A i \in 1..Len(steps) : steps[i] = EvaluationOrder[i]
    /\ (pc = "save" \/ console = "Prediction saved") => steps = EvaluationOrder

\* an evaluation that went through all its stages
C10_Witness ==
    /\ pc = "save"
    /\ steps = EvaluationOrder
    /\ mitigation.tier # ""

\* the lines "Error fetching ..." printed for a feed
ErrorsOf(feed) ==
    SelectSeq(printed,
              LAMBDA l : l.feed = feed /\ l.what = "Error fetching")

\* the names the NEO service holds for the days of a window
NeoNames(window) ==
    { feeds.neo[i].name : i \in { j \in 1 .. Len(feeds.neo) :
          window[1] <= feeds.neo[j].day /\ feeds.neo[j].day <= window[2] } }

\* C9: in main of the batch collector a failed request of any of the three
\* feeds is caught and printed inside its fetcher and never stops main:
\* every failure has its "Error fetching" line, main always has a next step
\* until the CSV is written, and once it is written all three fetchers were
\* called, every NEO window, the Fireball feed and the CAD feed that printed
\* no error contributed all the records their loops collect, and the CSV
\* holds the header and the scored rows of neos + fireballs + cad_objects.
C9_FeedIsolation ==
    /\ failures <= Len(ErrorsOf("NEO")) + Len(ErrorsOf("Fireball"))
                       + Len(ErrorsOf("CAD"))
    /\ main_pc # "done" => ENABLED NextBatch
    /\ main_pc = "done" =>
         /\ called = << "fetch_neo", "fetch_fireball", "fetch_cad" >>
         /\ \A k \in 1 .. Len(requests) :
              Line("NEO", "Error fetching", requests[k]) \notin
                  { printed[j] : j \in 1 .. Len(printed) }
              => SelectSeq(neos, LAMBDA o : o.name \in NeoNames(requests[k]))
                 = NeoLoop(NeoResponse(feeds.neo, requests[k][1],
                                       requests[k][2]), 1, << >>).neos
         /\ ErrorsOf("Fireball") = << >>
              => fireballs = FireballLoop(feeds.fireball, 1, << >>)
         /\ (ErrorsOf("CAD") = << >>
             /\ {"des", "dist", "v_rel"} \subseteq feeds.cad.fields)
              => cad_objects = CadLoop(feeds.cad.data, "h" \in feeds.cad.fields,
                                       1, << >>)
         /\ csv_file = << FIELDNAMES >>
                         \o Scored(neos \o fireballs \o cad_objects)

\* the Fireball request failed, the NEO and CAD records are in the CSV
C9_Witness ==
    /\ main_pc = "done"
    /\ ErrorsOf("Fireball") # << >>
    /\ feeds.fireball # << >>
    /\ fireballs = << >>
    /\ ErrorsOf("CAD") = << >>
    /\ neos # << >>
    /\ cad_objects # << >>
    /\ Len(csv_file) = 1 + Len(neos) + Len(cad_objects)

\* the names of the objects of a list
NamesOf(objs) == { objs[i].name : i \in 1 .. Len(objs) }

\* the well-formed records of each service within MAX_DISTANCE_KM
WellFormedNeo ==
    { feeds.neo[i].name : i \in { j \in 1 .. Len(feeds.neo) :
          feeds.neo[j].ok /\ feeds.neo[j].distance_km <= MAX_DISTANCE_KM } }

WellFormedFireball ==
    { feeds.fireball[i].f0 : i \in { j \in 1 .. Len(feeds.fireball) :
          /\ feeds.fireball[j].ok
          /\ \/ feeds.fireball[j].f1 = Blank
             \/ feeds.fireball[j].f1 <= MAX_DISTANCE_KM } }

WellFormedCad ==
    { feeds.cad.data[i].des : i \in { j \in 1 .. Len(feeds.cad.data) :
          /\ feeds.cad.data[j].ok
          /\ feeds.cad.data[j].dist * AU_KM <= MAX_DISTANCE_KM } }

\* every request of the run was answered
AllAnswered == main_pc = "done" /\ failures = 0

\* C11: in fetch_neo, fetch_fireball and fetch_cad a malformed record of a
\* response makes only that record be skipped: when every request was
\* answered, each fetcher returns all the well-formed records within
\* MAX_DISTANCE_KM of its responses, those after a malformed one included.
C11_Original ==
    AllAnswered =>
        /\ NamesOf(neos) = WellFormedNeo
        /\ NamesOf(fireballs) = WellFormedFireball
        /\ {"des", "dist", "v_rel"} \subseteq feeds.cad.fields
             => NamesOf(cad_objects) = WellFormedCad

\* C11, what the code does: fetch_fireball and fetch_cad skip only the
\* malformed record; fetch_neo keeps the records read before the malformed
\* one and loses the rest of that window's response.
C11_SkipPerRecordExceptNeo ==
    AllAnswered =>
        /\ NamesOf(fireballs) = WellFormedFireball
        /\ {"des", "dist", "v_rel"} \subseteq feeds.cad.fields
             => NamesOf(cad_objects) = WellFormedCad
        /\ NamesOf(neos) \subseteq WellFormedNeo
        /\ \A k \in 1 .. Len(requests) :
             LET response == NeoResponse(feeds.neo, requests[k][1],
                                         requests[k][2])
                 bad == { i \in 1 .. Len(response) : ~response[i].ok }
             IN  \A i \in 1 .. Len(response) :
                    (response[i].ok
                     /\ response[i].distance_km <= MAX_DISTANCE_KM)
                    => (response[i].name \in NamesOf(neos)
                        <=> \A b \in bad : i < b)

\* a NEO response with a well-formed record after a malformed one was read,
\* and so were a Fireball and a CAD response with a malformed record between
\* two collected ones
C11_Witness ==
    /\ AllAnswered
    /\ "2021 AB" \in NamesOf(neos)
    /\ "2021 AD" \in WellFormedNeo
    /\ "2021 AD" \notin NamesOf(neos)
    /\ {"2021-01-01", "2021-03-03"} \subseteq NamesOf(fireballs)
    /\ {"433", "2020 XY"} \subseteq NamesOf(cad_objects)

\* the days of a requested window
DaysOf(window) == window[1] .. window[2]

RequestedDays == UNION { DaysOf(requests[k]) : k \in 1 .. Len(requests) }

\* the first three parts of C12: finitely many requests, windows of at most
\* 7 days, no day in two windows
WindowsWellFormed ==
    /\ Len(requests) <= end_date - start_date
    /\ \A k \in 1 .. Len(requests) :
         /\ requests[k][1] <= requests[k][2]
         /\ requests[k][2] - requests[k][1] <= CHUNK_DAYS
    /\ \A j, k \in 1 .. Len(requests) :
         j # k => DaysOf(requests[j]) \cap DaysOf(requests[k]) = {}

\* C12: for every start_date < end_date the paging loop of fetch_neo ends
\* after finitely many requests, also when requests fail, every window
\* [current, chunk_end] spans at most 7 days, no day is requested in two
\* windows, and every day from start_date to end_date, end_date included,
\* lies in a requested window.
C12_Original ==
    main_pc = "returned" =>
        /\ WindowsWellFormed
        /\ start_date .. end_date \subseteq RequestedDays

\* C12, what the code does: the windows are well formed and cover every day
\* before end_date; end_date itself is requested unless end_date - start_date
\* is a multiple of CHUNK_DAYS + 1.
C12_EndDateMissedOnMultiplesOf8 ==
    main_pc = "returned" =>
        /\ WindowsWellFormed
        /\ start_date .. end_date - 1 \subseteq RequestedDays
        /\ RequestedDays \subseteq start_date .. end_date
        /\ end_date \in RequestedDays
             <=> (end_date - start_date) % (CHUNK_DAYS + 1) # 0

\* fetch_neo(0, 8) has returned after the single window 0..7, whose request
\* failed
C12_Witness ==
    /\ main_pc = "returned"
    /\ start_date = 0
    /\ end_date = 8
    /\ requests = << << 0, 7 >> >>
    /\ failures = 1

\* the tier get_mitigation_strategy answers for a returned report
TierOf(report) ==
    get_mitigation_strategy(report.combined_risk_factor, report.city_affected,
                            report.nearest_city, report.damage_radius_km).tier

\* C13: for every valid input the energy-driven label bounds the mitigation
\* tier: below 0.01 MT (airburst label) combined_risk_factor is at most 43
\* and the tier is LOW or MODERATE; from 1 MT on (catastrophic or global
\* label) combined_risk_factor is at least 30 and the tier is not LOW.
C13_LabelBoundsTier ==
    (result.returned /\ ValidArgs(args)) =>
        /\ result.impact_energy_mt < 10
             => /\ result.impact_classification
                       = "Small fireball - harmless airburst"
                /\ result.combined_risk_factor <= 430
                /\ TierOf(result) \in {"LOW", "MODERATE"}
        /\ result.impact_energy_mt >= 1000
             => /\ result.impact_classification
                       \in {"City to country-scale devastation",
                            "Global catastrophic impact"}
                /\ result.combined_risk_factor >= 300
                /\ TierOf(result) # "LOW"

\* an airburst at distance 0: the score reaches 43.0 and the tier MODERATE
C13_Witness ==
    /\ result.returned
    /\ ValidArgs(args)
    /\ result.impact_energy_mt < 10
    /\ args.distance_km = 0
    /\ result.combined_risk_factor = 430
    /\ TierOf(result) = "MODERATE"

\* an impact of exactly 1 MT beyond the horizon: the tier is MODERATE
C13_WitnessCatastrophic ==
    /\ result.returned
    /\ ValidArgs(args)
    /\ result.impact_energy_mt = 1000
    /\ result.proximity_risk = 0
    /\ TierOf(result) = "MODERATE"

\* a scored row has a risk in [0,100] and the strategy at index
\* min(19, floor(risk / 5)), an index of MITIGATION_STRATEGIES
RowInRange(row) ==
    /\ row.risk_factor \in 0 .. 1000
    /\ row.mitigation_strategy = Min(19, row.risk_factor \div 50)
    /\ row.mitigation_strategy \in MITIGATION_STRATEGIES
    /\ row.risk_factor = 1000 => row.mitigation_strategy = 19

\* C14: for every record the batch collector scores, calculate_risk_factor
\* returns a value in [0,100] and choose_mitigation selects the strategy at
\* index min(19, floor(risk/5)), a valid index of the 20 entries; a risk of
\* exactly 100 selects the last strategy.
C14_Original ==
    /\ main_pc # "raised"
    /\ main_pc \in {"write", "done"} =>
         /\ Len(all_objects) = Len(neos)
         /\ \A i \in 1 .. Len(all_objects) : RowInRange(all_objects[i])

\* C14, what the code does: every record that is scored is in range, and
\* the loop is left by an OverflowError, before the CSV is written, exactly
\* when a record has a diameter or a velocity whose power overflows.
C14_InRangeUnlessOverflow ==
    /\ \A i \in 1 .. Len(all_objects) : RowInRange(all_objects[i])
    /\ main_pc = "raised" =>
         /\ csv_file = << >>
         /\ \E i \in 1 .. Len(neos) :
              neos[i].diameter_m = Huge \/ neos[i].velocity_km_s = Huge
    /\ main_pc \in {"write", "done"} =>
         /\ Len(all_objects) = Len(neos)
         /\ \A i \in 1 .. Len(neos) :
              neos[i].diameter_m # Huge /\ neos[i].velocity_km_s # Huge

\* a record of diameter 1e200 after one that scored 100.0 from 99.96: the
\* first has the last strategy, the second ends main without a CSV
C14_Witness ==
    /\ main_pc = "raised"
    /\ Len(neos) = 2
    /\ neos[1].distance_km = 4000 /\ neos[1].velocity_km_s = 0
    /\ neos[2].diameter_m = Huge
    /\ Len(all_objects) = 1
    /\ all_objects[1].risk_factor = 1000
    /\ all_objects[1].mitigation_strategy = 19
    /\ csv_file = << >>

====
